---- MODULE Spec2Model ----
(***************************************************************************)
(* rule_kit: the read-only RuleEngine, the MutableRuleEngine and the       *)
(* RuleEngineBuilder, modelled as a state machine.  One engine is          *)
(* constructed (by new or by the builder) and then runs passes; every      *)
(* call the engine makes on a rule (evaluate, before_apply, apply,         *)
(* after_apply) is one step and is recorded in `calls`.                    *)
(***************************************************************************)
EXTENDS Integers, Sequences, FiniteSets

VARIABLES
    pc,        \* "start" | "builder" | "ready" | "loop" | "before" | "apply" | "after" | "done"
    kind,      \* "none" | "ro" (RuleEngine) | "mut" (MutableRuleEngine)
    builder,   \* RuleEngineBuilder { rules, order }
    input,     \* the rule list handed to the constructor (or held by the builder at build)
    reqOrder,  \* the order argument: "None" | "Asc" | "Desc"
    rules,     \* engine field _rules
    order,     \* engine field _order
    entry,     \* the entry point of the running pass
    ctx,       \* the caller's context, borrowed by the running pass
    ctx0,      \* the context as it was when the pass started
    i,         \* position of the loop `for rule in &self._rules`
    results,   \* local `results` of evaluate_all
    ret,       \* the value returned by the last pass
    calls,     \* the calls made on rules by the running pass, in order
    via,       \* how the engine was constructed: "none" | "new" | "builder"
    given,     \* what the caller last handed to the builder: the with_rules list (and
               \* whether it replaced rules given before) and the order
    built,     \* the engine's rules and order as they were right after construction
    rules0,    \* the engine's rules as they were when the pass started
    prev       \* the result of the pass before, when it was the same call on the same context

vars == <<pc, kind, builder, input, reqOrder, rules, order, entry, ctx, ctx0,
          i, results, ret, calls, via, given, built, rules0, prev>>

----------------------------------------------------------------------------
(* Bounds of the model *)

MaxRules == 2
MaxPrio == 1
MaxCtx == 1

----------------------------------------------------------------------------
(* Rules supplied by the caller *)

\* priority() is a u32; the model draws it from 0..MaxPrio
Priorities == 0..MaxPrio

\* What a rule's evaluate does: true on every context, true when the context
\* is positive (as `ctx.total > 100.0`), or an error.
EvalKinds == {"always", "positive", "fail"}

\* What a rule's apply does: succeed or return an error.
ApplyKinds == {"ok", "fail"}

Behaviours ==
    { b \in [ev : EvalKinds, ap : ApplyKinds] : b.ev = "fail" => b.ap = "ok" }

\* A rule value; id is the rule's position in the caller's list (its identity),
\* fired is the rule's internal state, which a mutable rule's apply may write.
MkRule(k, p, b) ==
    [id |-> k, priority |-> p, ev |-> b.ev, ap |-> b.ap, fired |-> FALSE]

\* the rule lists of n rules a caller can hand in
RuleListsOfLen(n) ==
    { [k \in 1..n |-> MkRule(k, f[k][1], f[k][2])] :
        f \in [1..n -> Priorities \X Behaviours] }

RuleLists == UNION { RuleListsOfLen(n) : n \in 0..MaxRules }

Contexts == 0..MaxCtx

Ok(v) == [tag |-> "Ok", val |-> v]
Err(e) == [tag |-> "Err", val |-> e]
NoRet == [tag |-> "Pending", val |-> <<>>]

\* the rule's own error value (R::RuleError)
RuleError(r, op) == <<"RuleError", r.id, op>>

\* Rule::evaluate / MutableRule::evaluate
RuleEvaluate(r, c) ==
    CASE r.ev = "always" -> Ok(TRUE)
      [] r.ev = "positive" -> Ok(c > 0)
      [] r.ev = "fail" -> Err(RuleError(r, "evaluate"))

\* Rule::apply: pure, computes an Output from the context
RuleApply(r, c) ==
    IF r.ap = "ok" THEN Ok(<<"Output", r.id, c>>)
    ELSE Err(RuleError(r, "apply"))

\* MutableRule::apply: the result
MutRuleApply(r, c) ==
    IF r.ap = "ok" THEN Ok(<<>>) ELSE Err(RuleError(r, "apply"))

\* MutableRule::apply(&mut self, ..): the rule after the call (a successful
\* apply records in the rule that it has fired)
MutRuleApplySelf(r) ==
    IF r.ap = "ok" THEN [r EXCEPT !.fired = TRUE] ELSE r

\* MutableRule::apply: the context after a successful call. The rule writes
\* its effect to the context the first time it is applied and nothing once it
\* has fired (as a discount that is granted once).
MutRuleApplyCtx(r, c) ==
    IF r.ap = "ok" /\ ~r.fired THEN c + 1 ELSE c

\* MutableRule::apply: the contexts the call can leave; an apply that fails
\* may have written to the context before it failed
MutRuleApplyCtxs(r, c) ==
    IF r.ap = "ok" THEN {MutRuleApplyCtx(r, c)} ELSE {c, c + 1}

----------------------------------------------------------------------------
(* PriorityOrder and the construction-time sort *)

PriorityOrderDefault == "Asc"

Orders == {"Asc", "Desc"}

\* Option<PriorityOrder>
OrderArgs == {"None"} \cup Orders

UnwrapOrDefault(o) == IF o = "None" THEN PriorityOrderDefault ELSE o

\* the key of Descending without the Reverse wrapper
ReverseKeyForgotten(p) == p

\* std::cmp::Reverse(p): compares the other way round
ReverseKey(p) == 0 - p

SortKey(r, o) == IF o = "Asc" THEN r.priority ELSE ReverseKey(r.priority)

\* an insertion that puts x before the elements of equal key (an unstable sort)
InsertByKeyUnstable(x, s, o) ==
    LET before == { k \in 1..Len(s) : SortKey(s[k], o) < SortKey(x, o) }
        n == IF before = {} THEN 0
             ELSE CHOOSE k \in before : \A j \in before : j <= k
    IN  SubSeq(s, 1, n) \o <<x>> \o SubSeq(s, n + 1, Len(s))

\* one insertion of a stable sort: x goes after every element whose key is <= its own
InsertByKey(x, s, o) ==
    LET before == { k \in 1..Len(s) : SortKey(s[k], o) <= SortKey(x, o) }
        n == IF before = {} THEN 0
             ELSE CHOOSE k \in before : \A j \in before : j <= k
    IN  SubSeq(s, 1, n) \o <<x>> \o SubSeq(s, n + 1, Len(s))

RECURSIVE SortUpTo(_, _, _)
SortUpTo(s, n, o) ==
    IF n = 0 THEN <<>> ELSE InsertByKey(s[n], SortUpTo(s, n - 1, o), o)

\* rules.sort_by_key(..): a stable sort by the key of the order
SortByKey(s, o) == SortUpTo(s, Len(s), o)

----------------------------------------------------------------------------
Init ==
    /\ pc = "start"
    /\ kind = "none"
    /\ builder = [rules |-> <<>>, order |-> PriorityOrderDefault]
    /\ input = <<>>
    /\ reqOrder = "None"
    /\ rules = <<>>
    /\ order = PriorityOrderDefault
    /\ entry = "none"
    /\ ctx = 0
    /\ ctx0 = 0
    /\ i = 0
    /\ results = <<>>
    /\ ret = NoRet
    /\ calls = <<>>
    /\ via = "none"
    /\ given = [rules |-> <<>>, order |-> "Asc", replaced |-> FALSE]
    /\ built = [rules |-> <<>>, order |-> "Asc"]
    /\ rules0 = <<>>
    /\ prev = NoRet

\* what a pass leaves alone besides the engine: the builder and the records
\* of the construction and of the pass before
lifeVars == <<builder, via, given, built, rules0, prev>>

passVars == <<entry, ctx, ctx0, i, results, ret, calls, rules0>>
engineVars == <<kind, input, reqOrder, rules, order>>

(* Construction *)

\* the fields of the engine RuleEngine::new(rules, order) returns
EngineOfNew(rs, o) ==
    [rules |-> SortByKey(rs, UnwrapOrDefault(o)), order |-> UnwrapOrDefault(o)]

\* RuleEngine::new(rules, order)
RuleEngineNew ==
    /\ pc = "start"
    /\ \E rs \in RuleLists, o \in OrderArgs :
         /\ input' = rs
         /\ reqOrder' = o
         /\ order' = UnwrapOrDefault(o)
         /\ rules' = SortByKey(rs, UnwrapOrDefault(o))
    /\ kind' = "ro"
    /\ pc' = "ready"
    /\ via' = "new"
    /\ built' = [rules |-> rules', order |-> order']
    /\ UNCHANGED <<builder, given, prev, passVars>>

\* MutableRuleEngine::new(rules, order)
MutableRuleEngineNew ==
    /\ pc = "start"
    /\ \E rs \in RuleLists, o \in OrderArgs :
         /\ input' = rs
         /\ reqOrder' = o
         /\ order' = UnwrapOrDefault(o)
         /\ rules' = SortByKey(rs, UnwrapOrDefault(o))
    /\ kind' = "mut"
    /\ pc' = "ready"
    /\ via' = "new"
    /\ built' = [rules |-> rules', order |-> order']
    /\ UNCHANGED <<builder, given, prev, passVars>>

(* RuleEngineBuilder *)

\* RuleEngineBuilder::new()
BuilderNew ==
    /\ pc = "start"
    /\ pc' = "builder"
    /\ builder' = [rules |-> <<>>, order |-> PriorityOrderDefault]
    /\ given' = [rules |-> <<>>, order |-> "Asc", replaced |-> FALSE]
    /\ UNCHANGED <<via, built, prev, engineVars, passVars>>

\* with_rules pushing the rules after the ones given before
WithRules_Append ==
    /\ pc = "builder"
    /\ \E n \in 0..(MaxRules - Len(builder.rules)) : \E rs \in RuleListsOfLen(n) :
         /\ builder' = [builder EXCEPT !.rules = builder.rules \o rs]
         /\ given' = [given EXCEPT !.rules = rs, !.replaced = (builder.rules # <<>>)]
    /\ UNCHANGED <<pc, via, built, prev, engineVars, passVars>>

\* RuleEngineBuilder::with_rules(rules); the caller creates at most MaxRules
\* rule values for the list it replaces and the list it hands in
WithRules ==
    /\ pc = "builder"
    /\ \E n \in 0..(MaxRules - Len(builder.rules)) : \E rs \in RuleListsOfLen(n) :
         /\ builder' = [builder EXCEPT !.rules = rs]
         /\ given' = [given EXCEPT !.rules = rs, !.replaced = (builder.rules # <<>>)]
    /\ UNCHANGED <<pc, via, built, prev, engineVars, passVars>>

\* RuleEngineBuilder::priority(order)
Priority(o) ==
    /\ pc = "builder"
    /\ builder' = [builder EXCEPT !.order = o]
    /\ given' = [given EXCEPT !.order = o]
    /\ UNCHANGED <<pc, via, built, prev, engineVars, passVars>>

\* RuleEngineBuilder::priority_desc()
PriorityDesc == Priority("Desc")

\* RuleEngineBuilder::priority_asc()
PriorityAsc == Priority("Asc")

\* RuleEngineBuilder::build()
Build ==
    /\ pc = "builder"
    /\ pc' = "ready"
    /\ kind' = "ro"
    /\ input' = builder.rules
    /\ reqOrder' = builder.order
    /\ order' = builder.order
    /\ rules' = SortByKey(builder.rules, builder.order)
    /\ via' = "builder"
    /\ built' = [rules |-> rules', order |-> order']
    /\ UNCHANGED <<builder, given, prev, passVars>>

----------------------------------------------------------------------------
(* A pass: the caller hands a context to one entry point *)

\* a call on the rule at position i, with the context handed to it
Call(op) == [op |-> op, at |-> i, ctx |-> ctx]

\* a pass that goes on with the outputs collected by the pass before
StartPass_KeepResults(e, c) ==
    /\ pc \in {"ready", "done"}
    /\ pc' = "loop"
    /\ entry' = e
    /\ ctx' = c
    /\ ctx0' = c
    /\ i' = 1
    /\ results' = results
    /\ ret' = NoRet
    /\ calls' = <<>>
    /\ rules0' = rules
    /\ prev' = IF pc = "done" /\ entry = e /\ ctx0 = c /\ ctx = c THEN ret ELSE NoRet
    /\ UNCHANGED <<builder, via, given, built, engineVars>>

\* the caller calls entry point e with context c; prev keeps the result of
\* the pass just ended when that was the same call on the same context
StartPass(e, c) ==
    /\ pc \in {"ready", "done"}
    /\ pc' = "loop"
    /\ entry' = e
    /\ ctx' = c
    /\ ctx0' = c
    /\ i' = 1
    /\ results' = <<>>
    /\ ret' = NoRet
    /\ calls' = <<>>
    /\ rules0' = rules
    /\ prev' = IF pc = "done" /\ entry = e /\ ctx0 = c /\ ctx = c THEN ret ELSE NoRet
    /\ UNCHANGED <<builder, via, given, built, engineVars>>

\* the error wrapped in the variant of the other step
ReturnErrSwapped(variant, e) ==
    /\ ret' = Err([variant |-> IF variant = "Evaluation" THEN "Application"
                                ELSE "Evaluation",
                    inner |-> e])
    /\ pc' = "done"

\* `.map_err(RuleEngineError::Evaluation)?` / `.map_err(RuleEngineError::Application)?`:
\* wrap the rule's error in the variant of the step and return it at once
ReturnErr(variant, e) ==
    /\ ret' = Err([variant |-> variant, inner |-> e])
    /\ pc' = "done"

(* RuleEngine::evaluate_all *)

EvaluateAll(c) == kind = "ro" /\ StartPass("evaluate_all", c)

\* evaluate_all testing `is_ok()` instead of the returned bool: a rule whose
\* evaluate returned false is applied too
EvaluateAll_Evaluate_IsOk ==
    /\ pc = "loop" /\ entry = "evaluate_all" /\ i <= Len(rules)
    /\ calls' = Append(calls, Call("evaluate"))
    /\ LET r == RuleEvaluate(rules[i], ctx)
       IN  IF r.tag = "Err"
           THEN ReturnErr("Evaluation", r.val) /\ UNCHANGED i
           ELSE pc' = "apply" /\ UNCHANGED <<i, ret>>
    /\ UNCHANGED <<lifeVars, engineVars, entry, ctx, ctx0, results>>

EvaluateAll_Evaluate ==
    /\ pc = "loop" /\ entry = "evaluate_all" /\ i <= Len(rules)
    /\ calls' = Append(calls, Call("evaluate"))
    /\ LET r == RuleEvaluate(rules[i], ctx)
       IN  CASE r.tag = "Err" -> ReturnErr("Evaluation", r.val) /\ UNCHANGED i
             [] r.tag = "Ok" /\ r.val -> pc' = "apply" /\ UNCHANGED <<i, ret>>
             [] r.tag = "Ok" /\ ~r.val -> i' = i + 1 /\ UNCHANGED <<pc, ret>>
    /\ UNCHANGED <<lifeVars, engineVars, entry, ctx, ctx0, results>>

EvaluateAll_Apply ==
    /\ pc = "apply" /\ entry = "evaluate_all"
    /\ calls' = Append(calls, Call("apply"))
    /\ LET r == RuleApply(rules[i], ctx)
       IN  IF r.tag = "Err"
           THEN ReturnErr("Application", r.val) /\ UNCHANGED <<i, results>>
           ELSE /\ results' = Append(results, r.val)
                /\ i' = i + 1
                /\ pc' = "loop"
                /\ UNCHANGED ret
    /\ UNCHANGED <<lifeVars, engineVars, entry, ctx, ctx0>>

EvaluateAll_Return ==
    /\ pc = "loop" /\ entry = "evaluate_all" /\ i > Len(rules)
    /\ ret' = Ok(results)
    /\ pc' = "done"
    /\ UNCHANGED <<lifeVars, engineVars, entry, ctx, ctx0, i, results, calls>>

(* RuleEngine::evaluate_first *)

EvaluateFirst(c) == kind = "ro" /\ StartPass("evaluate_first", c)

\* evaluate_first with `.unwrap_or(false)` instead of `?`: a failed evaluate
\* is taken for false and the loop goes on
EvaluateFirst_Evaluate_SkipOnErr ==
    /\ pc = "loop" /\ entry = "evaluate_first" /\ i <= Len(rules)
    /\ calls' = Append(calls, Call("evaluate"))
    /\ LET r == RuleEvaluate(rules[i], ctx)
       IN  IF r.tag = "Ok" /\ r.val
           THEN pc' = "apply" /\ UNCHANGED <<i, ret>>
           ELSE i' = i + 1 /\ UNCHANGED <<pc, ret>>
    /\ UNCHANGED <<lifeVars, engineVars, entry, ctx, ctx0, results>>

EvaluateFirst_Evaluate ==
    /\ pc = "loop" /\ entry = "evaluate_first" /\ i <= Len(rules)
    /\ calls' = Append(calls, Call("evaluate"))
    /\ LET r == RuleEvaluate(rules[i], ctx)
       IN  CASE r.tag = "Err" -> ReturnErr("Evaluation", r.val) /\ UNCHANGED i
             [] r.tag = "Ok" /\ r.val -> pc' = "apply" /\ UNCHANGED <<i, ret>>
             [] r.tag = "Ok" /\ ~r.val -> i' = i + 1 /\ UNCHANGED <<pc, ret>>
    /\ UNCHANGED <<lifeVars, engineVars, entry, ctx, ctx0, results>>

\* evaluate_first without the `return`: the loop goes on after a successful apply
EvaluateFirst_Apply_NoReturn ==
    /\ pc = "apply" /\ entry = "evaluate_first"
    /\ calls' = Append(calls, Call("apply"))
    /\ LET r == RuleApply(rules[i], ctx)
       IN  IF r.tag = "Err"
           THEN ReturnErr("Application", r.val) /\ UNCHANGED i
           ELSE pc' = "loop" /\ i' = i + 1 /\ UNCHANGED ret
    /\ UNCHANGED <<lifeVars, engineVars, entry, ctx, ctx0, results>>

\* return rule.apply(ctx).map(Some).map_err(RuleEngineError::Application)
EvaluateFirst_Apply ==
    /\ pc = "apply" /\ entry = "evaluate_first"
    /\ calls' = Append(calls, Call("apply"))
    /\ LET r == RuleApply(rules[i], ctx)
       IN  IF r.tag = "Err"
           THEN ReturnErr("Application", r.val)
           ELSE ret' = Ok(<<"Some", r.val>>) /\ pc' = "done"
    /\ UNCHANGED <<lifeVars, engineVars, entry, ctx, ctx0, i, results>>

\* evaluate_first treating an engine without rules as a failure
EvaluateFirst_Return_EmptyIsError ==
    /\ pc = "loop" /\ entry = "evaluate_first" /\ i > Len(rules)
    /\ ret' = IF rules = <<>> THEN Err([variant |-> "Unknown", inner |-> <<>>])
              ELSE Ok(<<"None">>)
    /\ pc' = "done"
    /\ UNCHANGED <<lifeVars, engineVars, entry, ctx, ctx0, i, results, calls>>

EvaluateFirst_Return ==
    /\ pc = "loop" /\ entry = "evaluate_first" /\ i > Len(rules)
    /\ ret' = Ok(<<"None">>)
    /\ pc' = "done"
    /\ UNCHANGED <<lifeVars, engineVars, entry, ctx, ctx0, i, results, calls>>

(* MutableRuleEngine::evaluate_all_mut *)

EvaluateAllMut(c) == kind = "mut" /\ StartPass("evaluate_all_mut", c)

\* evaluate_all_mut evaluating every rule on a snapshot taken at pass start
EvaluateAllMut_Evaluate_Snapshot ==
    /\ pc = "loop" /\ entry = "evaluate_all_mut" /\ i <= Len(rules)
    /\ calls' = Append(calls, [op |-> "evaluate", at |-> i, ctx |-> ctx0])
    /\ LET r == RuleEvaluate(rules[i], ctx0)
       IN  CASE r.tag = "Err" -> ReturnErr("Evaluation", r.val) /\ UNCHANGED i
             [] r.tag = "Ok" /\ r.val -> pc' = "before" /\ UNCHANGED <<i, ret>>
             [] r.tag = "Ok" /\ ~r.val -> i' = i + 1 /\ UNCHANGED <<pc, ret>>
    /\ UNCHANGED <<lifeVars, engineVars, entry, ctx, ctx0, results>>

EvaluateAllMut_Evaluate ==
    /\ pc = "loop" /\ entry = "evaluate_all_mut" /\ i <= Len(rules)
    /\ calls' = Append(calls, Call("evaluate"))
    /\ LET r == RuleEvaluate(rules[i], ctx)
       IN  CASE r.tag = "Err" -> ReturnErr("Evaluation", r.val) /\ UNCHANGED i
             [] r.tag = "Ok" /\ r.val -> pc' = "before" /\ UNCHANGED <<i, ret>>
             [] r.tag = "Ok" /\ ~r.val -> i' = i + 1 /\ UNCHANGED <<pc, ret>>
    /\ UNCHANGED <<lifeVars, engineVars, entry, ctx, ctx0, results>>

\* evaluate_all_mut calling the after_apply hook in the place of before_apply
EvaluateAllMut_BeforeApply_Swapped ==
    /\ pc = "before" /\ entry = "evaluate_all_mut"
    /\ calls' = Append(calls, Call("after_apply"))
    /\ pc' = "apply"
    /\ UNCHANGED <<lifeVars, engineVars, entry, ctx, ctx0, i, results, ret>>

EvaluateAllMut_BeforeApply ==
    /\ pc = "before" /\ entry = "evaluate_all_mut"
    /\ calls' = Append(calls, Call("before_apply"))
    /\ pc' = "apply"
    /\ UNCHANGED <<lifeVars, engineVars, entry, ctx, ctx0, i, results, ret>>

\* evaluate_all_mut restoring the context of the pass start when apply fails
EvaluateAllMut_Apply_Rollback ==
    /\ pc = "apply" /\ entry = "evaluate_all_mut"
    /\ calls' = Append(calls, Call("apply"))
    /\ LET r == MutRuleApply(rules[i], ctx)
       IN  IF r.tag = "Err"
           THEN ReturnErr("Application", r.val) /\ ctx' = ctx0
           ELSE /\ pc' = "after" /\ UNCHANGED ret
                /\ ctx' \in MutRuleApplyCtxs(rules[i], ctx)
    /\ rules' = [rules EXCEPT ![i] = MutRuleApplySelf(rules[i])]
    /\ UNCHANGED <<lifeVars, kind, input, reqOrder, order, entry, ctx0, i, results>>

EvaluateAllMut_Apply ==
    /\ pc = "apply" /\ entry = "evaluate_all_mut"
    /\ calls' = Append(calls, Call("apply"))
    /\ ctx' \in MutRuleApplyCtxs(rules[i], ctx)
    /\ LET r == MutRuleApply(rules[i], ctx)
       IN  IF r.tag = "Err"
           THEN ReturnErr("Application", r.val)
           ELSE pc' = "after" /\ UNCHANGED ret
    /\ rules' = [rules EXCEPT ![i] = MutRuleApplySelf(rules[i])]
    /\ UNCHANGED <<lifeVars, kind, input, reqOrder, order, entry, ctx0, i, results>>

EvaluateAllMut_AfterApply ==
    /\ pc = "after" /\ entry = "evaluate_all_mut"
    /\ calls' = Append(calls, Call("after_apply"))
    /\ i' = i + 1
    /\ pc' = "loop"
    /\ UNCHANGED <<lifeVars, engineVars, entry, ctx, ctx0, results, ret>>

EvaluateAllMut_Return ==
    /\ pc = "loop" /\ entry = "evaluate_all_mut" /\ i > Len(rules)
    /\ ret' = Ok(<<>>)
    /\ pc' = "done"
    /\ UNCHANGED <<lifeVars, engineVars, entry, ctx, ctx0, i, results, calls>>

(* MutableRuleEngine::evaluate_first_mut *)

EvaluateFirstMut(c) == kind = "mut" /\ StartPass("evaluate_first_mut", c)

EvaluateFirstMut_Evaluate ==
    /\ pc = "loop" /\ entry = "evaluate_first_mut" /\ i <= Len(rules)
    /\ calls' = Append(calls, Call("evaluate"))
    /\ LET r == RuleEvaluate(rules[i], ctx)
       IN  CASE r.tag = "Err" -> ReturnErr("Evaluation", r.val) /\ UNCHANGED i
             [] r.tag = "Ok" /\ r.val -> pc' = "before" /\ UNCHANGED <<i, ret>>
             [] r.tag = "Ok" /\ ~r.val -> i' = i + 1 /\ UNCHANGED <<pc, ret>>
    /\ UNCHANGED <<lifeVars, engineVars, entry, ctx, ctx0, results>>

EvaluateFirstMut_BeforeApply ==
    /\ pc = "before" /\ entry = "evaluate_first_mut"
    /\ calls' = Append(calls, Call("before_apply"))
    /\ pc' = "apply"
    /\ UNCHANGED <<lifeVars, engineVars, entry, ctx, ctx0, i, results, ret>>

\* evaluate_first_mut running after_apply before it looks at apply's result
EvaluateFirstMut_Apply_HookBeforeCheck ==
    /\ pc = "apply" /\ entry = "evaluate_first_mut"
    /\ ctx' \in MutRuleApplyCtxs(rules[i], ctx)
    /\ LET r == MutRuleApply(rules[i], ctx)
       IN  IF r.tag = "Err"
           THEN /\ calls' = calls \o <<Call("apply"),
                                       [op |-> "after_apply", at |-> i, ctx |-> ctx']>>
                /\ ReturnErr("Application", r.val)
           ELSE /\ calls' = Append(calls, Call("apply"))
                /\ pc' = "after" /\ UNCHANGED ret
    /\ rules' = [rules EXCEPT ![i] = MutRuleApplySelf(rules[i])]
    /\ UNCHANGED <<lifeVars, kind, input, reqOrder, order, entry, ctx0, i, results>>

EvaluateFirstMut_Apply ==
    /\ pc = "apply" /\ entry = "evaluate_first_mut"
    /\ calls' = Append(calls, Call("apply"))
    /\ ctx' \in MutRuleApplyCtxs(rules[i], ctx)
    /\ LET r == MutRuleApply(rules[i], ctx)
       IN  IF r.tag = "Err"
           THEN ReturnErr("Application", r.val)
           ELSE pc' = "after" /\ UNCHANGED ret
    /\ rules' = [rules EXCEPT ![i] = MutRuleApplySelf(rules[i])]
    /\ UNCHANGED <<lifeVars, kind, input, reqOrder, order, entry, ctx0, i, results>>

\* evaluate_first_mut without `return Ok(true)`: the loop goes on
EvaluateFirstMut_AfterApply_NoReturn ==
    /\ pc = "after" /\ entry = "evaluate_first_mut"
    /\ calls' = Append(calls, Call("after_apply"))
    /\ i' = i + 1
    /\ pc' = "loop"
    /\ UNCHANGED <<lifeVars, engineVars, entry, ctx, ctx0, results, ret>>

\* evaluate_first_mut moving the rule it applied to the back of the sequence
EvaluateFirstMut_AfterApply_MoveToBack ==
    /\ pc = "after" /\ entry = "evaluate_first_mut"
    /\ calls' = Append(calls, Call("after_apply"))
    /\ ret' = Ok(TRUE)
    /\ pc' = "done"
    /\ rules' = SubSeq(rules, 1, i - 1) \o SubSeq(rules, i + 1, Len(rules)) \o <<rules[i]>>
    /\ UNCHANGED <<lifeVars, kind, input, reqOrder, order, entry, ctx, ctx0, i, results>>

\* rule.after_apply(ctx); return Ok(true);
EvaluateFirstMut_AfterApply ==
    /\ pc = "after" /\ entry = "evaluate_first_mut"
    /\ calls' = Append(calls, Call("after_apply"))
    /\ ret' = Ok(TRUE)
    /\ pc' = "done"
    /\ UNCHANGED <<lifeVars, engineVars, entry, ctx, ctx0, i, results>>

EvaluateFirstMut_Return ==
    /\ pc = "loop" /\ entry = "evaluate_first_mut" /\ i > Len(rules)
    /\ ret' = Ok(FALSE)
    /\ pc' = "done"
    /\ UNCHANGED <<lifeVars, engineVars, entry, ctx, ctx0, i, results, calls>>

----------------------------------------------------------------------------
Next ==
    \/ RuleEngineNew
    \/ MutableRuleEngineNew
    \/ BuilderNew
    \/ WithRules
    \/ \E o \in Orders : Priority(o)
    \/ PriorityDesc
    \/ PriorityAsc
    \/ Build
    \/ \E c \in Contexts : EvaluateAll(c)
    \/ EvaluateAll_Evaluate
    \/ EvaluateAll_Apply
    \/ EvaluateAll_Return
    \/ \E c \in Contexts : EvaluateFirst(c)
    \/ EvaluateFirst_Evaluate
    \/ EvaluateFirst_Apply
    \/ EvaluateFirst_Return
    \/ \E c \in Contexts : EvaluateAllMut(c)
    \/ EvaluateAllMut_Evaluate
    \/ EvaluateAllMut_BeforeApply
    \/ EvaluateAllMut_Apply
    \/ EvaluateAllMut_AfterApply
    \/ EvaluateAllMut_Return
    \/ \E c \in Contexts : EvaluateFirstMut(c)
    \/ EvaluateFirstMut_Evaluate
    \/ EvaluateFirstMut_BeforeApply
    \/ EvaluateFirstMut_Apply
    \/ EvaluateFirstMut_AfterApply
    \/ EvaluateFirstMut_Return

Spec == Init /\ [][Next]_vars

----------------------------------------------------------------------------
(* Vocabulary of the properties *)

IsTrue(res) == res.tag = "Ok" /\ res.val
IsFalse(res) == res.tag = "Ok" /\ ~res.val
IsErr(res) == res.tag = "Err"

NonDecreasing(s) == \A a, b \in 1..Len(s) : a < b => s[a].priority <= s[b].priority
NonIncreasing(s) == \A a, b \in 1..Len(s) : a < b => s[a].priority >= s[b].priority

\* t holds each element of s exactly once and nothing else
IsPermutation(t, s) ==
    /\ Len(t) = Len(s)
    /\ \A k \in 1..Len(s) : Cardinality({ j \in 1..Len(t) : t[j] = s[k] }) = 1

\* where the rule that was at position k of the input sits in the engine
PosOf(k) == CHOOSE j \in 1..Len(rules) : rules[j] = input[k]

\* the indices of `calls` that are the call op on the rule at position k
Idx(op, k) == { j \in 1..Len(calls) : calls[j].op = op /\ calls[j].at = k }

\* the call failed: the rule returned an error
CallFailed(c) ==
    \/ c.op = "evaluate" /\ IsErr(RuleEvaluate(rules[c.at], c.ctx))
    \/ c.op = "apply" /\ kind = "ro" /\ IsErr(RuleApply(rules[c.at], c.ctx))
    \/ c.op = "apply" /\ kind = "mut" /\ IsErr(MutRuleApply(rules[c.at], c.ctx))

Done(e) == pc = "done" /\ entry = e

\* C1: right after construction (RuleEngine::new, MutableRuleEngine::new or
\* RuleEngineBuilder::build) the engine's sequence is a permutation of the input
\* rules, with non-decreasing priorities for Ascending and for None, and
\* non-increasing priorities for Descending.
C1_SortedAfterConstruction ==
    pc = "ready" =>
        /\ IsPermutation(rules, input)
        /\ reqOrder \in {"None", "Asc"} => NonDecreasing(rules)
        /\ reqOrder = "Desc" => NonIncreasing(rules)

\* a Descending engine built from a list that was in ascending order
C1_Witness ==
    /\ pc = "ready" /\ reqOrder = "Desc" /\ Len(input) = 2
    /\ input[1].priority < input[2].priority
    /\ rules = <<input[2], input[1]>>

\* C2: the construction-time sort is stable in both orders: two input rules of
\* equal priority keep their relative input order in the engine's sequence.
C2_StableSort ==
    pc = "ready" /\ IsPermutation(rules, input) =>
        \A a, b \in 1..Len(input) :
            a < b /\ input[a].priority = input[b].priority => PosOf(a) < PosOf(b)

\* a Descending engine holding two rules of equal priority in input order
C2_Witness ==
    /\ pc = "ready" /\ reqOrder = "Desc" /\ Len(input) = 2
    /\ input[1].priority = input[2].priority
    /\ rules = input

\* the outputs evaluate_all owes on the context of the pass
Matches(r) == IsTrue(RuleEvaluate(r, ctx0))
Matching == SelectSeq(rules, Matches)
ExpectedOutputs == [k \in 1..Len(Matching) |-> RuleApply(Matching[k], ctx0).val]

NoRuleFails == \A k \in 1..Len(rules) : rules[k].ev # "fail" /\ rules[k].ap # "fail"

\* C3: when no rule's evaluate or apply fails, evaluate_all returns exactly the
\* apply outputs of the rules whose evaluate returned true, in the engine's
\* order, one per such rule, and apply is never invoked on a rule whose
\* evaluate returned false.
C3_EvaluateAllFilters ==
    Done("evaluate_all") =>
        /\ NoRuleFails => ret.tag = "Ok"
        /\ ret.tag = "Ok" =>
              /\ ret.val = ExpectedOutputs
              /\ \A k \in 1..Len(rules) :
                    /\ Cardinality(Idx("evaluate", k)) = 1
                    /\ Cardinality(Idx("apply", k)) = IF Matches(rules[k]) THEN 1 ELSE 0

\* a pass over two rules that returned the output of the second one only
C3_Witness ==
    /\ Done("evaluate_all") /\ NoRuleFails /\ Len(rules) = 2
    /\ ~Matches(rules[1]) /\ Matches(rules[2])
    /\ ret = Ok(<<RuleApply(rules[2], ctx0).val>>)

\* the first position whose rule evaluates true on the context of the pass
FirstMatch == CHOOSE k \in 1..Len(rules) :
                 Matches(rules[k]) /\ \A j \in 1..(k - 1) : ~Matches(rules[j])

\* the calls of a pass that evaluated rules 1..k and applied rule k
CallsUpToApply(k) ==
    [j \in 1..(k + 1) |->
        IF j <= k THEN [op |-> "evaluate", at |-> j, ctx |-> ctx0]
        ELSE [op |-> "apply", at |-> k, ctx |-> ctx0]]

\* C4: evaluate_first returns Some(output) of the first rule in sorted order
\* whose evaluate returns true (its apply having succeeded) and None if every
\* rule's evaluate returns false; after that apply no call is made on any
\* later rule.
C4_EvaluateFirstShortCircuit ==
    Done("evaluate_first") =>
        /\ ret.tag = "Ok" /\ ret.val # <<"None">> =>
              /\ \E k \in 1..Len(rules) : Matches(rules[k])
              /\ ret.val = <<"Some", RuleApply(rules[FirstMatch], ctx0).val>>
              /\ calls = CallsUpToApply(FirstMatch)
        /\ ret.tag = "Ok" /\ ret.val = <<"None">> =>
              /\ \A k \in 1..Len(rules) : IsFalse(RuleEvaluate(rules[k], ctx0))
              /\ \A j \in 1..Len(calls) : calls[j].op = "evaluate"
        /\ (\A k \in 1..Len(rules) : IsFalse(RuleEvaluate(rules[k], ctx0)))
              => ret = Ok(<<"None">>)
        /\ (\E k \in 1..Len(rules) : Matches(rules[k]))
              /\ NoRuleFails => ret.tag = "Ok" /\ ret.val # <<"None">>

\* the first rule matched, a later rule would have matched too and was not called
C4_Witness ==
    /\ Done("evaluate_first") /\ Len(rules) = 2
    /\ Matches(rules[1]) /\ Matches(rules[2])
    /\ ret = Ok(<<"Some", RuleApply(rules[1], ctx0).val>>)
    /\ Idx("evaluate", 2) = {} /\ Idx("apply", 2) = {}

\* the pass returned None
C4_WitnessNone ==
    /\ Done("evaluate_first") /\ Len(rules) = 2 /\ ret = Ok(<<"None">>)

\* C5: fail-fast in every entry point: a failed evaluate or apply is the last
\* call of its pass (no evaluate, apply or hook follows, on that rule or on a
\* later one), and the pass returns the error alone.
C5_FailFast ==
    \A j \in 1..Len(calls) :
        CallFailed(calls[j]) =>
            /\ j = Len(calls)
            /\ \A m \in 1..Len(calls) : calls[m].at <= calls[j].at
            /\ pc = "done"
            /\ ret.tag = "Err"
            /\ DOMAIN ret.val = {"variant", "inner"}
            /\ ret.val.inner = RuleError(rules[calls[j].at], calls[j].op)

\* the second rule failed after the first had produced an output
C5_Witness ==
    /\ Done("evaluate_all") /\ Len(rules) = 2
    /\ Len(results) = 1
    /\ CallFailed(calls[Len(calls)])
    /\ ret.tag = "Err"

\* C6: an entry point returns Evaluation(e) exactly when a rule's evaluate
\* failed with e and Application(e) exactly when a rule's apply failed with e;
\* it returns no error when no call failed, and never Unknown.
C6_ErrorVariants ==
    pc = "done" =>
        /\ ret.tag = "Ok" => \A j \in 1..Len(calls) : ~CallFailed(calls[j])
        /\ ret.tag = "Err" =>
              /\ calls # <<>>
              /\ LET last == calls[Len(calls)]
                     r == rules[last.at]
                 IN  /\ CallFailed(last)
                     /\ ret.val.variant = "Evaluation" <=> last.op = "evaluate"
                     /\ ret.val.variant = "Application" <=> last.op = "apply"
                     /\ ret.val.variant \in {"Evaluation", "Application"}
                     /\ ret.val.inner = RuleError(r, last.op)

\* evaluate_first_mut returned the Application error of a rule
C6_Witness ==
    /\ Done("evaluate_first_mut") /\ ret.tag = "Err"
    /\ ret.val.variant = "Application"
    /\ calls[Len(calls)].op = "apply"

\* the context left by the first j calls of the pass
RECURSIVE CtxAfter(_)
CtxAfter(j) ==
    IF j = 0 THEN ctx0
    ELSE IF calls[j].op = "apply" /\ kind = "mut"
         THEN MutRuleApplyCtx(rules0[calls[j].at], CtxAfter(j - 1))
         ELSE CtxAfter(j - 1)

\* C7: in evaluate_all_mut each evaluate is called on the context as left by
\* the earlier applies of the pass; a rule whose evaluate is false on the
\* original context and true on that context has its apply invoked.
C7_LiveContext ==
    entry = "evaluate_all_mut" =>
        /\ \A j \in 1..Len(calls) :
              calls[j].op = "evaluate" => calls[j].ctx = CtxAfter(j - 1)
        /\ pc = "done" =>
              \A b \in 1..Len(rules) : \A j \in Idx("evaluate", b) :
                  /\ IsFalse(RuleEvaluate(rules[b], ctx0))
                  /\ IsTrue(RuleEvaluate(rules[b], CtxAfter(j - 1)))
                  => Idx("apply", b) # {}

\* rule B did not match the original context and fired after rule A's apply
C7_Witness ==
    /\ Done("evaluate_all_mut") /\ Len(rules) = 2
    /\ IsFalse(RuleEvaluate(rules[2], ctx0))
    /\ Idx("apply", 1) # {} /\ Idx("apply", 2) # {}
    /\ ctx = ctx0 + 2

MutEntry == entry \in {"evaluate_all_mut", "evaluate_first_mut"}

\* the calls on the rule at position k are evaluate, before_apply, apply,
\* after_apply, next to each other and once each
FullCycle(k) ==
    /\ \A op \in {"evaluate", "before_apply", "apply", "after_apply"} :
          Cardinality(Idx(op, k)) = 1
    /\ \E j \in 1..(Len(calls) - 3) :
          /\ calls[j].op = "evaluate" /\ calls[j].at = k
          /\ calls[j + 1].op = "before_apply" /\ calls[j + 1].at = k
          /\ calls[j + 2].op = "apply" /\ calls[j + 2].at = k
          /\ calls[j + 3].op = "after_apply" /\ calls[j + 3].at = k

\* C8: in the mutating engine a rule whose evaluate returns true and whose
\* apply succeeds sees evaluate, before_apply, apply, after_apply in that
\* order, once each, with no call on another rule in between; a rule whose
\* evaluate returns false sees neither hook nor apply.
C8_HookOrder ==
    pc = "done" /\ MutEntry =>
        \A k \in 1..Len(rules) :
            /\ (\E j \in Idx("apply", k) : ~CallFailed(calls[j])) => FullCycle(k)
            /\ (\E j \in Idx("evaluate", k) :
                    IsTrue(RuleEvaluate(rules[k], calls[j].ctx))
                    /\ ~IsErr(MutRuleApply(rules[k], calls[j].ctx))) => FullCycle(k)
            /\ (\E j \in Idx("evaluate", k) :
                    IsFalse(RuleEvaluate(rules[k], calls[j].ctx)))
                  => /\ Idx("before_apply", k) = {}
                     /\ Idx("apply", k) = {}
                     /\ Idx("after_apply", k) = {}

\* a pass in which one rule was skipped and the next one ran its full cycle
C8_Witness ==
    /\ Done("evaluate_all_mut") /\ Len(rules) = 2
    /\ Idx("evaluate", 1) # {} /\ Idx("apply", 1) = {}
    /\ FullCycle(2)

\* the pass ended with the Application error of the rule at position k
ApplyFailedAt(k) ==
    /\ pc = "done" /\ MutEntry
    /\ ret.tag = "Err" /\ ret.val.variant = "Application"
    /\ calls[Len(calls)].at = k

\* C9, as claimed: when a rule's apply returns an error, neither the
\* before_apply hook nor the after_apply hook of that rule is run.
C9_HooksSkippedOnApplyFailure ==
    \A k \in 1..Len(rules) :
        ApplyFailedAt(k) => Idx("before_apply", k) = {} /\ Idx("after_apply", k) = {}

\* C9, amended: when a rule's apply returns an error, the after_apply hook of
\* that rule is not run; its before_apply hook has run, once, right before
\* the failing apply.
C9_AfterApplySkippedOnApplyFailure ==
    \A k \in 1..Len(rules) :
        ApplyFailedAt(k) =>
            /\ Idx("after_apply", k) = {}
            /\ Idx("apply", k) = {Len(calls)}
            /\ Idx("before_apply", k) = {Len(calls) - 1}

\* the apply of the second rule failed in a pass of evaluate_all_mut
C9_Witness ==
    /\ entry = "evaluate_all_mut" /\ Len(rules) = 2 /\ ApplyFailedAt(2)
    /\ Idx("after_apply", 1) # {}

\* C10: evaluate_first_mut returns true after exactly one apply, on the first
\* rule in sorted order whose evaluate returned true, with no evaluate on a
\* later rule; it returns false, with no apply and the context unchanged,
\* when every rule's evaluate returned false.
C10_EvaluateFirstMut ==
    Done("evaluate_first_mut") =>
        /\ ret = Ok(TRUE) =>
              /\ \E k \in 1..Len(rules) : Matches(rules[k])
              /\ Idx("apply", FirstMatch) # {}
              /\ Cardinality({ j \in 1..Len(calls) : calls[j].op = "apply" }) = 1
              /\ \A j \in 1..Len(calls) : calls[j].at <= FirstMatch
              /\ calls[Len(calls)] =
                    [op |-> "after_apply", at |-> FirstMatch,
                     ctx |-> MutRuleApplyCtx(rules0[FirstMatch], ctx0)]
        /\ ret = Ok(FALSE) =>
              /\ \A k \in 1..Len(rules) : IsFalse(RuleEvaluate(rules[k], ctx0))
              /\ \A j \in 1..Len(calls) : calls[j].op = "evaluate"
              /\ ctx = ctx0
        /\ (\A k \in 1..Len(rules) : IsFalse(RuleEvaluate(rules[k], ctx0)))
              => ret = Ok(FALSE)
        /\ (\E k \in 1..Len(rules) : Matches(rules[k])) /\ NoRuleFails
              => ret = Ok(TRUE)

\* the first rule was applied and the second, which matched too, was not called
C10_Witness ==
    /\ Done("evaluate_first_mut") /\ Len(rules) = 2 /\ ret = Ok(TRUE)
    /\ Matches(rules[1]) /\ Matches(rules[2])
    /\ Idx("evaluate", 2) = {}
    /\ ctx = ctx0 + 1

\* what a pass over no rule returns
EmptyResult(e) ==
    CASE e = "evaluate_all" -> Ok(<<>>)
      [] e = "evaluate_first" -> Ok(<<"None">>)
      [] e = "evaluate_all_mut" -> Ok(<<>>)
      [] e = "evaluate_first_mut" -> Ok(FALSE)

\* C11: an engine constructed from zero rules, by new or by the builder, is
\* valid: evaluate_all returns Ok of the empty sequence, evaluate_first
\* Ok(None), evaluate_first_mut Ok(false), evaluate_all_mut Ok(()); no call is
\* made, the context is unchanged and no error is returned, on every context.
C11_EmptyEngine ==
    input = <<>> /\ pc \notin {"start", "builder"} =>
        /\ rules = <<>>
        /\ pc = "done" =>
              /\ ret = EmptyResult(entry)
              /\ ret.tag = "Ok"
              /\ calls = <<>>
              /\ ctx = ctx0

\* an engine built by a builder that was given no rules answered evaluate_first
C11_Witness ==
    /\ via = "builder" /\ input = <<>> /\ given.rules = <<>>
    /\ Done("evaluate_first") /\ ctx0 = MaxCtx
    /\ ret = Ok(<<"None">>)

\* C12: RuleEngineBuilder::build yields the engine RuleEngine::new(rules,
\* Some(order)) yields, rules being the list of the last with_rules call
\* (empty if there was none) and order the one set by the last priority call
\* (Ascending if there was none).
C12_BuildEqualsNew ==
    pc = "ready" /\ via = "builder" =>
        /\ given.order \in Orders
        /\ [rules |-> rules, order |-> order] = EngineOfNew(given.rules, given.order)

\* a Descending engine built from a list that replaced an earlier one
C12_Witness ==
    /\ pc = "ready" /\ via = "builder"
    /\ given.replaced /\ given.rules # <<>> /\ given.order = "Desc"
    /\ rules = given.rules /\ order = "Desc"

\* the rule without its internal state
Bare(r) == [r EXCEPT !.fired = FALSE]

\* C13: the sequence is fixed for the engine's lifetime: in and after every
\* pass of every entry point, successful or failed, the engine holds the rules
\* it held right after construction, in the same positions, and the same
\* order value; only a mutable rule's internal state may differ.
C13_SequenceFixed ==
    pc \notin {"start", "builder"} =>
        /\ order = built.order
        /\ Len(rules) = Len(built.rules)
        /\ \A k \in 1..Len(rules) : Bare(rules[k]) = built.rules[k]
        /\ kind = "ro" => rules = built.rules

\* a failed pass of the mutating engine, after a rule has changed its
\* internal state, on a sequence of two rules of different priority
C13_Witness ==
    /\ kind = "mut" /\ pc = "done" /\ ret.tag = "Err"
    /\ Len(rules) = 2 /\ rules[1].priority # rules[2].priority
    /\ rules[1].fired
    /\ rules # built.rules

\* C14: a read-only pass (evaluate_all, evaluate_first), returning a result
\* or an error, leaves the context and the engine unchanged, and the same
\* call repeated on the same context returns what it returned before,
\* whatever passes ran earlier.
C14_ReadOnlyPass ==
    kind = "ro" /\ pc \in {"loop", "apply", "done"} =>
        /\ ctx = ctx0
        /\ rules = built.rules
        /\ order = built.order
        /\ pc = "done" /\ prev # NoRet => ret = prev

\* evaluate_all was repeated on the same context and returned the same two outputs
C14_Witness ==
    /\ kind = "ro" /\ Done("evaluate_all")
    /\ prev # NoRet /\ ret = prev
    /\ ret.tag = "Ok" /\ Len(ret.val) = 2

\* a repeated read-only pass returned the same error
C14_WitnessErr ==
    /\ kind = "ro" /\ Done("evaluate_first")
    /\ prev # NoRet /\ ret = prev /\ ret.tag = "Err"

\* a pass of the mutating engine has returned an error
MutPassFailed == pc = "done" /\ MutEntry /\ ret.tag = "Err"

\* the applies that succeeded before the failing call of the pass
EarlierApplies == { j \in 1..(Len(calls) - 1) : calls[j].op = "apply" }

\* C15, as claimed: after an error of evaluate_all_mut or evaluate_first_mut
\* the context equals its value before the pass only if no earlier rule of
\* the pass was applied.
C15_UnchangedOnlyIfNothingApplied ==
    MutPassFailed /\ ctx = ctx0 => EarlierApplies = {}

\* C15, amended: no rollback. After an error at the k-th rule the context is
\* the context of the pass start with the effects of the applies that
\* succeeded earlier in the pass, in order, and with whatever the failing
\* apply wrote before failing; it is not reset to its value before the pass.
C15_NoRollback ==
    MutPassFailed =>
        LET n == Len(calls)
            last == calls[n]
        IN  /\ last.ctx = CtxAfter(n - 1)
            /\ last.op = "evaluate" => ctx = last.ctx
            /\ last.op = "apply" => ctx \in MutRuleApplyCtxs(rules0[last.at], last.ctx)
            /\ ctx >= last.ctx

\* the second rule's apply failed after the first rule's apply had written
\* to the context, and the failing apply had written too
C15_Witness ==
    /\ MutPassFailed /\ entry = "evaluate_all_mut" /\ Len(rules) = 2
    /\ EarlierApplies # {}
    /\ calls[Len(calls)].op = "apply"
    /\ calls[Len(calls)].ctx = ctx0 + 1
    /\ ctx = ctx0 + 2
====
